---- MODULE Spec2Model ----
(***************************************************************************)
(* Model of srss: run (src/main.rs) spawns the scrape task                 *)
(* (src/scraper.rs) and the export task (src/exporter.rs), joined by       *)
(* try_join!, with a bounded tokio mpsc channel of Reports between them.   *)
(*                                                                         *)
(* Spec        the program as run wires it: scrape + export + run.         *)
(*             scrape_inner owns the Sender but never sends (the emission  *)
(*             loop of scraper.rs 203-225 is commented out), so the export *)
(*             stream only ever ends.                                      *)
(* SpecExport  export() with the channel of run, driven by an arbitrary    *)
(*             holder of the Sender that emits Reports 1..MaxReports.      *)
(* SpecComponents                                                          *)
(*             one operation of src/scraper/components.rs (Login::login,   *)
(*             ControlForm::query, set_data_period, Pagination::query,     *)
(*             increase_page_size) against a page that converges at a      *)
(*             chosen attempt or never. retry_loop, which no file of src/  *)
(*             defines, follows the Retry Controller of the specification. *)
(* SpecTree    ControlForm::stations over a station tree of the page.      *)
(* SpecLine    StationLine::is_dir and StationLine::click on its lines.    *)
(* SpecStations                                                            *)
(*             equality, hash and output path of two Stations.             *)
(* SpecRecords the text forms and the equality of two Records.             *)
(* SpecWrite   write_report on one Report, down to the bytes of its file.   *)
(***************************************************************************)
EXTENDS Integers, Sequences, FiniteSets, TLC

VARIABLES
    runPc,          \* run: "none" | "start" | "joining" | "returned"
    runResult,      \* run: "none" | "ok" | "err"
    scrPc,          \* scrape task: the step it is about to perform
    scrResult,      \* "none" | "ok" | "err" | "panic" | "cancelled"
    innerResult,    \* scrape_inner: "none" | "ok" | "err"
    failedStep,     \* the scrape_inner step whose error was returned, or "none"
    performed,      \* scrape_inner steps performed so far
    process,        \* chromedriver child: "none" | "running" | "killed"
    session,        \* browser session: "none" | "open" | "closed"
    quitCalled,     \* driver.quit() was called
    toast,          \* dismissal of the login toast: "none" | "closed" |
                    \* "not_found" | "click_failed"
    prodPc,         \* SpecExport's Sender holder: "none" | "sending" | "done"
    senderAlive,    \* the Sender<Report> has not been dropped
    receiverAlive,  \* the Receiver<Report> has not been dropped
    queue,          \* Reports in the channel (by index), oldest first
    sent,           \* number of Reports sent into the channel
    received,       \* number of Reports dequeued by export
    expPc,          \* export task: the step it is about to perform
    expResult,      \* "none" | "ok" | "err" | "panic" | "cancelled"
    expError,       \* 0: none, -1: output directory, k > 0: write of Report k
    outDir,         \* output directory: "absent" | "stale" | "clean"
    dirCreated,     \* create_dir_all returned Ok
    wrPc,           \* write_report task: "idle" | "create" | "write" | "done"
    wrReport,       \* the Report the write task holds (0: none)
    wrLines,        \* records written to the file so far
    wrResult,       \* "none" | "ok" | "err" | "panic"
    files,          \* Reports whose output file was created
    written,        \* Reports whose write_report returned Ok
    failed,         \* Reports whose write_report failed
    cOp,            \* the component operation running, or "none"
    cPc,            \* its position: the step or retry site it is at, or "done"
    creds,          \* Credentials handed to Login::login
    cMonth,         \* month: Option<String> (0: None)
    readyAt,        \* per retry site: the attempt from which the awaited
                    \* condition holds on the page (0: never)
    attempts,       \* per retry site: invocations of its attempt closure
    observed,       \* per retry site: what the last verification read saw
    resolved,       \* Login elements resolved so far
    cLog,           \* action chains performed on the browser, in order
    cResult,        \* "none" | "ok" | "err"
    cErr,           \* "none" | "not_found" | "driver" | "exhausted"
    cValue,         \* what the operation returned on success
    loopRes,        \* per retry site: how its retry_loop ended
    dom,            \* station tree: its lines in document order
    expanded,       \* directory lines (by position) that are expanded
    checked,        \* station lines (by position) whose checkbox is checked
    treePc,         \* ControlForm::stations: "idle" | "lines" | "done"
    treeRes,        \* "none" | "ok" | "err"
    treeLines,      \* the lines stations() returned (by position), in order
    lineOp,         \* the last StationLine operation: what it looked up,
                    \* clicked and returned
    stA, stB,       \* two Stations
    fmt,            \* the ExportFormat of the run
    recA, recB,     \* two Records
    applied,        \* the functions applied to them so far
    stOut,          \* what the Station functions returned
    recOut,         \* what the Record functions returned
    driverOut,      \* `<driver> --version`: whether it ran, and its stdout
    browserOut,     \* `reg query ... Version`: whether it ran, and its stdout
    wReport,        \* write_report: the records of its Report, in order
    wFmt,           \* the ExportFormat its lines are formatted in
    wPc,            \* "idle" | "create" | "write" | "done"
    wNext,          \* the record the loop is at
    wRes,           \* "none" | "ok" | "err"
    wData,          \* the bytes the output file holds
    wOp             \* the file's write operation in the blocking pool:
                    \* its state and its buffer

runVars  == <<runPc, runResult>>
scrVars  == <<scrPc, scrResult, innerResult, failedStep, performed,
              process, session, quitCalled, toast>>
chanVars == <<senderAlive, receiverAlive, queue, sent, received>>
expVars  == <<expPc, expResult, expError, outDir, dirCreated>>
wrVars   == <<wrPc, wrReport, wrLines, wrResult, files, written, failed>>
compVars == <<cOp, cPc, creds, cMonth, readyAt, attempts, observed,
              resolved, cLog, cResult, cErr, cValue, loopRes>>
treeVars == <<dom, expanded, checked, treePc, treeRes, treeLines, lineOp>>
dataVars == <<stA, stB, fmt, recA, recB, applied, stOut, recOut>>
hostVars == <<driverOut, browserOut>>
fileVars == <<wReport, wFmt, wPc, wNext, wRes, wData, wOp>>
auxVars  == <<compVars, treeVars, dataVars, hostVars, fileVars>>
vars     == <<runVars, scrVars, prodPc, chanVars, expVars, wrVars, auxVars>>

(***************************************************************************)
(* Bounds and program constants                                            *)
(***************************************************************************)
\* Reports the Sender holder of SpecExport may emit.
MaxReports == 22

\* Leaf stations shown by the dashboard's station tree.
NumStations == 2

\* Records carried by a Report are 1..MaxRecords.
MaxRecords == 2

\* (mutant) the channel is created one slot too large.
ChannelCapacityOffByOne == 20 + 1

\* main.rs:58  tokio_mpsc::channel(20)
ChannelCapacity == 20

\* Number of records of Report k (the Reports differ in length).
NumRecords(k) == 1 + (k % MaxRecords)

Min(S) == CHOOSE x \in S : \A y \in S : x <= y

(***************************************************************************)
(* The scrape task (src/scraper.rs)                                        *)
(***************************************************************************)
\* Everything a step of the scrape task leaves alone.
scrOthers == <<runVars, prodPc, receiverAlive, queue, sent, received,
               expVars, wrVars, auxVars>>

\* The steps of scrape_inner, in program order.
InnerSteps == <<"goto_login", "Login_query", "Login_login", "close_toast",
                "goto_report", "ControlForm_query", "set_data_period",
                "Pagination_query", "increase_page_size", "sleep">>

StepIndex(s) == CHOOSE i \in 1..Len(InnerSteps) : InnerSteps[i] = s

ScrapeRunning == scrPc \notin {"idle", "done"}

\* scrape's future ends with `res`: its locals are dropped, so the Sender is
\* dropped (the channel closes) and the kill_on_drop child is killed.
ScrapeReturn(res) ==
    /\ scrPc' = "done"
    /\ scrResult' = res
    /\ senderAlive' = FALSE
    /\ process' = IF process = "running" THEN "killed" ELSE process

\* A step of scrape outside scrape_inner succeeded.
ScrapeGoto(next) ==
    /\ scrPc' = next
    /\ UNCHANGED <<scrResult, senderAlive>>

\* Characters of a command's stdout.
MaxStdout == 2

IsDigit(c) == c \in {"1", "2"}

Stdouts == UNION {[1 .. n -> {"v", "1", "2"}] : n \in 0 .. MaxStdout}

\* Command::output(): Err when the command cannot be run, else its stdout
\* (the exit status is not looked at).
Outputs == {o \in [ran : BOOLEAN, stdout : Stdouts] : ~o.ran => o.stdout = <<>>}

NoOutput == [ran |-> FALSE, stdout |-> <<>>]

\* No version query has run.
HostIdle ==
    /\ driverOut = NoOutput
    /\ browserOut = NoOutput

RECURSIVE DigitRun(_)
\* The digits a text starts with.
DigitRun(t) ==
    IF t = <<>> \/ ~IsDigit(Head(t)) THEN <<>>
    ELSE <<Head(t)>> \o DigitRun(Tail(t))

RECURSIVE FirstMatch(_)
\* text.matches(Regex \d+).next(): the first run of digits, <<>> for None.
FirstMatch(t) ==
    IF t = <<>> THEN <<>>
    ELSE IF IsDigit(Head(t)) THEN DigitRun(t)
    ELSE FirstMatch(Tail(t))

\* (mutant) the two versions are read but not compared.
DriverVersionsRead ==
    /\ driverOut.ran /\ FirstMatch(driverOut.stdout) # <<>>
    /\ browserOut.ran /\ FirstMatch(browserOut.stdout) # <<>>

\* assert_driver_compatible returns Ok: both commands ran, both outputs hold
\* a number, and ensure!(driver_version == browser_version) passes.
DriverCompatible ==
    /\ driverOut.ran /\ FirstMatch(driverOut.stdout) # <<>>
    /\ browserOut.ran /\ FirstMatch(browserOut.stdout) # <<>>
    /\ FirstMatch(driverOut.stdout) = FirstMatch(browserOut.stdout)

\* assert_driver_compatible(&args).await?
AssertDriverCompatible ==
    /\ scrPc = "assert_driver_compatible"
    /\ IF DriverCompatible
         THEN ScrapeGoto("taskkill") /\ UNCHANGED process
         ELSE ScrapeReturn("err")
    /\ UNCHANGED <<innerResult, failedStep, performed, session, quitCalled,
                   toast>>
    /\ UNCHANGED scrOthers

\* spawn_webdriver: taskkill of a previous driver, its exit code checked.
KillPreviousDriver ==
    /\ scrPc = "taskkill"
    /\ \/ ScrapeGoto("spawn_webdriver") /\ UNCHANGED process
       \/ ScrapeReturn("err")
    /\ UNCHANGED <<innerResult, failedStep, performed, session, quitCalled,
                   toast>>
    /\ UNCHANGED scrOthers

\* spawn_webdriver: Command::new(&args.executable) ... .spawn()
SpawnWebdriver ==
    /\ scrPc = "spawn_webdriver"
    /\ \/ ScrapeGoto("WebDriver_new") /\ process' = "running"
       \/ ScrapeReturn("err")
    /\ UNCHANGED <<innerResult, failedStep, performed, session, quitCalled,
                   toast>>
    /\ UNCHANGED scrOthers

\* settings.unset_headless()?; WebDriver::new(...).await.context(...)?
WebDriverNew ==
    /\ scrPc = "WebDriver_new"
    /\ \/ ScrapeGoto("set_window_rect") /\ session' = "open" /\ UNCHANGED process
       \/ ScrapeReturn("err") /\ UNCHANGED session
    /\ UNCHANGED <<innerResult, failedStep, performed, quitCalled, toast>>
    /\ UNCHANGED scrOthers

\* driver.set_window_rect(0, 0, 1920, 1080).await.context(...)?
SetWindowRect ==
    /\ scrPc = "set_window_rect"
    /\ \/ ScrapeGoto(InnerSteps[1]) /\ UNCHANGED process
       \/ ScrapeReturn("err")
    /\ UNCHANGED <<innerResult, failedStep, performed, session, quitCalled,
                   toast>>
    /\ UNCHANGED scrOthers

\* A step of scrape_inner succeeded: go on with the next one.
InnerOk(next) ==
    /\ scrPc' = next
    /\ UNCHANGED <<scrResult, innerResult, failedStep, process, senderAlive>>

\* (mutant) the error is kept and returned only after the remaining steps.
InnerFailDeferred(step) ==
    /\ innerResult' = "err"
    /\ failedStep' = IF failedStep = "none" THEN step ELSE failedStep
    /\ IF StepIndex(step) < Len(InnerSteps)
         THEN /\ scrPc' = InnerSteps[StepIndex(step) + 1]
              /\ UNCHANGED <<scrResult, process, senderAlive>>
         ELSE ScrapeReturn("err")

\* A step of scrape_inner failed and `?` returns its error from scrape_inner;
\* scrape's own `?` on scrape_inner(...).await returns it from scrape, before
\* driver.quit() is reached.
InnerFail(step) ==
    /\ innerResult' = "err"
    /\ failedStep' = step
    /\ ScrapeReturn("err")

\* A step of scrape_inner whose error is propagated with `?`.
InnerStep(step) ==
    /\ scrPc = step
    /\ performed' = performed \cup {step}
    /\ \/ InnerOk(InnerSteps[StepIndex(step) + 1])
       \/ InnerFail(step)
    /\ UNCHANGED <<session, quitCalled, toast>>
    /\ UNCHANGED scrOthers

GotoLoginPage == InnerStep("goto_login")

LoginQuery == InnerStep("Login_query")

LoginLogin == InnerStep("Login_login")

\* (mutant) the block's error is propagated with `?`.
ToastResultPropagated(t) ==
    IF t = "closed" THEN InnerOk("goto_report") ELSE InnerFail("close_toast")

\* let _: Result<_> = try { ... }: the block's result is discarded.
ToastResult(t) == InnerOk("goto_report")

\* The try block around the login toast: query(login_info_win_close)
\* .and_clickable().single().await? finds the close control or not, and
\* .click().await? clicks it or fails.
CloseLoginToast ==
    /\ scrPc = "close_toast"
    /\ performed' = performed \cup {"close_toast"}
    /\ \E t \in {"closed", "not_found", "click_failed"} :
          /\ toast' = t
          /\ ToastResult(t)
    /\ UNCHANGED <<session, quitCalled>>
    /\ UNCHANGED scrOthers

GotoReportPage == InnerStep("goto_report")

ControlFormQuery == InnerStep("ControlForm_query")

SetDataPeriod == InnerStep("set_data_period")

PaginationQuery == InnerStep("Pagination_query")

IncreasePageSize == InnerStep("increase_page_size")

\* thread::sleep(Duration::from_secs(10000)); then scrape_inner returns Ok(())
\* having sent nothing, and its report_sink is dropped.
SleepAndReturn ==
    /\ scrPc = "sleep"
    /\ performed' = performed \cup {"sleep"}
    /\ scrPc' = "quit"
    /\ innerResult' = IF innerResult = "none" THEN "ok" ELSE innerResult
    /\ senderAlive' = FALSE
    /\ UNCHANGED <<scrResult, failedStep, process, session, quitCalled, toast>>
    /\ UNCHANGED scrOthers

\* driver.quit().await.context("unable to close driver")?
DriverQuit ==
    /\ scrPc = "quit"
    /\ quitCalled' = TRUE
    /\ \/ ScrapeGoto("try_wait") /\ session' = "closed" /\ UNCHANGED process
       \/ ScrapeReturn("err") /\ UNCHANGED session
    /\ UNCHANGED <<innerResult, failedStep, performed, toast>>
    /\ UNCHANGED scrOthers

\* process.try_wait().context("chromedriver still running")?; then Ok(())
ProcessTryWait ==
    /\ scrPc = "try_wait"
    /\ \/ ScrapeReturn("ok")
       \/ ScrapeReturn("err")
    /\ UNCHANGED <<innerResult, failedStep, performed, session, quitCalled,
                   toast>>
    /\ UNCHANGED scrOthers

\* The task panics at some step: its future is dropped where it stands.
ScrapePanic ==
    /\ ScrapeRunning
    /\ ScrapeReturn("panic")
    /\ UNCHANGED <<innerResult, failedStep, performed, session, quitCalled,
                   toast>>
    /\ UNCHANGED scrOthers

ScrapeStep ==
    \/ AssertDriverCompatible
    \/ KillPreviousDriver
    \/ SpawnWebdriver
    \/ WebDriverNew
    \/ SetWindowRect
    \/ GotoLoginPage
    \/ LoginQuery
    \/ LoginLogin
    \/ CloseLoginToast
    \/ GotoReportPage
    \/ ControlFormQuery
    \/ SetDataPeriod
    \/ PaginationQuery
    \/ IncreasePageSize
    \/ SleepAndReturn
    \/ DriverQuit
    \/ ProcessTryWait
    \/ ScrapePanic

(***************************************************************************)
(* The channel's Sender side in SpecExport: any caller of export()         *)
(***************************************************************************)
prodOthers == <<runVars, scrVars, expVars, wrVars, received, auxVars>>

\* report_sink.send(report).await on the channel(20) of run: completes only
\* while the channel holds fewer than its capacity.
ProducerSend ==
    /\ prodPc = "sending"
    /\ receiverAlive
    /\ sent < MaxReports
    /\ Len(queue) < ChannelCapacity
    /\ queue' = Append(queue, sent + 1)
    /\ sent' = sent + 1
    /\ UNCHANGED <<prodPc, senderAlive, receiverAlive>>
    /\ UNCHANGED prodOthers

\* send on a channel whose Receiver is gone returns Err: the holder stops.
ProducerSendClosed ==
    /\ prodPc = "sending"
    /\ ~receiverAlive
    /\ sent < MaxReports
    /\ prodPc' = "done"
    /\ senderAlive' = FALSE
    /\ UNCHANGED <<receiverAlive, queue, sent>>
    /\ UNCHANGED prodOthers

\* The holder is done and drops the Sender.
ProducerFinish ==
    /\ prodPc = "sending"
    /\ prodPc' = "done"
    /\ senderAlive' = FALSE
    /\ UNCHANGED <<receiverAlive, queue, sent>>
    /\ UNCHANGED prodOthers

(***************************************************************************)
(* The export task (src/exporter.rs)                                       *)
(***************************************************************************)
expOthers == <<runVars, scrVars, prodPc, senderAlive, sent, auxVars>>

ExportRunning == expPc \notin {"idle", "done"}

\* export's future ends with `res`: the stream and its Receiver are dropped,
\* which closes the channel and discards the Reports still queued.
ExportReturn(res, e) ==
    /\ expPc' = "done"
    /\ expResult' = res
    /\ expError' = e
    /\ receiverAlive' = FALSE
    /\ queue' = <<>>

\* let _ = fs::remove_dir_all(&directory).await;  (the result is discarded)
ExportRemoveDir ==
    /\ expPc = "remove_dir"
    /\ expPc' = "create_dir"
    /\ \/ outDir' = "absent"
       \/ outDir' = outDir
    /\ UNCHANGED <<expResult, expError, dirCreated>>
    /\ UNCHANGED <<chanVars, wrVars>>
    /\ UNCHANGED expOthers

\* fs::create_dir_all(&directory).await.context(...)?
ExportCreateDir ==
    /\ expPc = "create_dir"
    /\ \/ /\ expPc' = "recv"
          /\ dirCreated' = TRUE
          /\ outDir' = IF outDir = "absent" THEN "clean" ELSE outDir
          /\ UNCHANGED <<expResult, expError, receiverAlive, queue>>
       \/ /\ ExportReturn("err", -1)
          /\ UNCHANGED <<outDir, dirCreated>>
    /\ UNCHANGED <<received, wrVars>>
    /\ UNCHANGED expOthers

\* (mutant) the write is spawned and the stream is polled again at once.
ExportDequeueNoAwait ==
    /\ expPc = "recv"
    /\ queue # <<>>
    /\ wrPc \in {"idle", "done"}
    /\ queue' = Tail(queue)
    /\ received' = received + 1
    /\ wrPc' = "create"
    /\ wrReport' = Head(queue)
    /\ wrLines' = 0
    /\ wrResult' = "none"
    /\ expPc' = "recv"
    /\ UNCHANGED <<expResult, expError, outDir, dirCreated, receiverAlive>>
    /\ UNCHANGED <<files, written, failed>>
    /\ UNCHANGED expOthers

\* The stream yields a Report: map computes its destination and then() spawns
\* write_report and awaits the JoinHandle before it polls the stream again.
ExportDequeue ==
    /\ expPc = "recv"
    /\ queue # <<>>
    /\ queue' = Tail(queue)
    /\ received' = received + 1
    /\ wrPc' = "create"
    /\ wrReport' = Head(queue)
    /\ wrLines' = 0
    /\ wrResult' = "none"
    /\ expPc' = "join"
    /\ UNCHANGED <<expResult, expError, outDir, dirCreated, receiverAlive>>
    /\ UNCHANGED <<files, written, failed>>
    /\ UNCHANGED expOthers

\* The stream ends (channel empty, every Sender dropped): try_collect is Ok.
ExportEndOfStream ==
    /\ expPc = "recv"
    /\ queue = <<>>
    /\ ~senderAlive
    /\ ExportReturn("ok", 0)
    /\ UNCHANGED <<outDir, dirCreated, received, wrVars>>
    /\ UNCHANGED expOthers

\* (mutant) the joined write's error is dropped and the stream goes on.
ExportJoinIgnoreError ==
    /\ expPc = "join"
    /\ wrPc = "done"
    /\ wrPc' = "idle"
    /\ expPc' = "recv"
    /\ UNCHANGED <<expResult, expError, receiverAlive, queue>>
    /\ UNCHANGED <<outDir, dirCreated, received>>
    /\ UNCHANGED <<wrReport, wrLines, wrResult, files, written, failed>>
    /\ UNCHANGED expOthers

\* The awaited JoinHandle resolves: .map(|out| out.map_err(Error::new)
\* .flatten()) turns a panic or an Err into an Err, and try_collect returns
\* the first Err at once, with the context "error writing station reports".
ExportJoin ==
    /\ expPc = "join"
    /\ wrPc = "done"
    /\ wrPc' = "idle"
    /\ IF wrResult = "ok"
         THEN /\ expPc' = "recv"
              /\ UNCHANGED <<expResult, expError, receiverAlive, queue>>
         ELSE ExportReturn("err", wrReport)
    /\ UNCHANGED <<outDir, dirCreated, received>>
    /\ UNCHANGED <<wrReport, wrLines, wrResult, files, written, failed>>
    /\ UNCHANGED expOthers

\* The export task panics at some step.
ExportPanic ==
    /\ ExportRunning
    /\ ExportReturn("panic", 0)
    /\ UNCHANGED <<outDir, dirCreated, received, wrVars>>
    /\ UNCHANGED expOthers

(***************************************************************************)
(* A spawned write_report task (src/exporter.rs)                           *)
(***************************************************************************)
wrOthers == <<runVars, scrVars, prodPc, chanVars, expVars, auxVars>>

WriteEnd(res) ==
    /\ wrPc' = "done"
    /\ wrResult' = res
    /\ written' = IF res = "ok" THEN written \cup {wrReport} ELSE written
    /\ failed' = IF res = "ok" THEN failed ELSE failed \cup {wrReport}

\* File::create(file).await.with_context(...)?
WriteCreate ==
    /\ wrPc = "create"
    /\ \/ /\ wrPc' = "write"
          /\ files' = files \cup {wrReport}
          /\ UNCHANGED <<wrResult, written, failed>>
       \/ /\ WriteEnd("err")
          /\ UNCHANGED files
    /\ UNCHANGED <<wrReport, wrLines>>
    /\ UNCHANGED wrOthers

\* for record in &report.records { file.write_all(...).await...? }
WriteRecord ==
    /\ wrPc = "write"
    /\ wrLines < NumRecords(wrReport)
    /\ \/ /\ wrLines' = wrLines + 1
          /\ UNCHANGED <<wrPc, wrResult, written, failed>>
       \/ /\ WriteEnd("err")
          /\ UNCHANGED wrLines
    /\ UNCHANGED <<wrReport, files>>
    /\ UNCHANGED wrOthers

\* The loop is over: "report written", Ok(()).
WriteFinish ==
    /\ wrPc = "write"
    /\ wrLines = NumRecords(wrReport)
    /\ WriteEnd("ok")
    /\ UNCHANGED <<wrReport, wrLines, files>>
    /\ UNCHANGED wrOthers

\* The write task panics: its JoinHandle resolves to a JoinError.
WritePanic ==
    /\ wrPc \in {"create", "write"}
    /\ WriteEnd("panic")
    /\ UNCHANGED <<wrReport, wrLines, files>>
    /\ UNCHANGED wrOthers

(***************************************************************************)
(* run and main (src/main.rs), task_context (src/lib.rs)                   *)
(***************************************************************************)
runOthers == <<innerResult, failedStep, performed, process, session,
               quitCalled, toast, prodPc, chanVars, expResult, expError, outDir,
               dirCreated, wrVars, auxVars>>

\* (mutant) a JoinError (a panicked task) is taken for success.
task_contextIgnorePanic(res) == IF res = "err" THEN "err" ELSE "ok"

\* |res| res.map_err(Error::new).flatten().context(ctx): Ok only for Ok(Ok(_)).
task_context(res) == IF res = "ok" THEN "ok" ELSE "err"

\* let (report_sx, report_rx) = channel(20); tokio::spawn(scrape(...));
\* tokio::spawn(export(...))
RunSpawn ==
    /\ runPc = "start"
    /\ runPc' = "joining"
    /\ scrPc' = "assert_driver_compatible"
    /\ expPc' = "remove_dir"
    /\ UNCHANGED <<runResult, scrResult>>
    /\ UNCHANGED runOthers

\* tokio::try_join!(scraper, reports)?: Err as soon as either future is Err,
\* Ok once both are Ok.
RunJoin ==
    /\ runPc = "joining"
    /\ \/ /\ scrResult # "none"
          /\ task_context(scrResult) = "err"
          /\ runResult' = "err"
       \/ /\ expResult # "none"
          /\ task_context(expResult) = "err"
          /\ runResult' = "err"
       \/ /\ scrResult # "none"
          /\ expResult # "none"
          /\ task_context(scrResult) = "ok"
          /\ task_context(expResult) = "ok"
          /\ runResult' = "ok"
    /\ runPc' = "returned"
    /\ UNCHANGED <<scrPc, scrResult, expPc>>
    /\ UNCHANGED runOthers

\* main: block_on(run(...))? has returned and the Runtime is dropped: a task
\* still running is dropped at its next yield point.
CancelScrape ==
    /\ runPc = "returned"
    /\ ScrapeRunning
    /\ ScrapeReturn("cancelled")
    /\ UNCHANGED <<innerResult, failedStep, performed, session, quitCalled,
                   toast>>
    /\ UNCHANGED scrOthers

CancelExport ==
    /\ runPc = "returned"
    /\ ExportRunning
    /\ ExportReturn("cancelled", 0)
    /\ UNCHANGED <<outDir, dirCreated, received, wrVars>>
    /\ UNCHANGED expOthers

(***************************************************************************)
(* Components of the dashboard (src/scraper/components.rs)                 *)
(***************************************************************************)
\* Attempts a retry loop allows before it gives up.
RetryBudget == 3

\* The page converges after at most MaxContinues + 1 attempts, or never: the
\* latest convergence is one attempt past the budget.
MaxContinues == RetryBudget

compOthers == <<runVars, scrVars, prodPc, chanVars, expVars, wrVars, treeVars,
                dataVars,
                hostVars, fileVars>>

Ops == {"Login_login", "ControlForm_query", "set_data_period",
        "Pagination_query", "increase_page_size"}

\* The five retry_loop call sites.
Sites == {"control_bar", "granularity", "time_period", "pagination",
          "page_size"}

SitesOf(op) ==
    CASE op = "ControlForm_query" -> {"control_bar"}
      [] op = "set_data_period" -> {"granularity", "time_period"}
      [] op = "Pagination_query" -> {"pagination"}
      [] op = "increase_page_size" -> {"page_size"}
      [] OTHER -> {}

FirstPc(op) ==
    CASE op = "Login_login" -> "resolve_username"
      [] op = "ControlForm_query" -> "control_bar"
      [] op = "set_data_period" -> "granularity"
      [] op = "Pagination_query" -> "pagination"
      [] op = "increase_page_size" -> "page_size"

Months == {"2021-04", "2021-05"}

\* What a verification read can return at each site.
ReadValues(site) ==
    CASE site = "granularity" -> {"Monthly", "absent"}
      [] site = "time_period" -> Months \cup {""}
      [] site = "page_size" -> {"50 / page", "10 / page", "", "absent"}
      [] OTHER -> {"found", "absent"}

\* The state each site waits for.
Expected(site) ==
    CASE site = "granularity" -> "Monthly"
      [] site = "time_period" -> cMonth
      [] site = "page_size" -> "50 / page"
      [] OTHER -> "found"

\* The page shows the awaited state to the attempt being made now.
Converged(site) ==
    readyAt[site] # 0 /\ attempts[site] + 1 >= readyAt[site]

\* What the page lets the attempt being made now read.
Readable(site) ==
    {v \in ReadValues(site) : (v = Expected(site)) <=> Converged(site)}

\* retry_loop(description, attempt): what the loop does after the n-th
\* invocation of attempt gave `outcome`. Continue: invoke again, up to the
\* budget; Break(v): return v; an error: propagate it without another attempt.
retry_loop(n, outcome) ==
    CASE outcome = "Break" -> "Ok"
      [] outcome = "Err" -> "Err"
      [] OTHER -> IF n >= RetryBudget THEN "Exhausted" ELSE "Again"

\* The operation returns.
CompReturn(res, err, v) ==
    /\ cPc' = "done"
    /\ cResult' = res
    /\ cErr' = err
    /\ cValue' = v

\* (mutant) the error of an attempt is dropped and the attempt is made again.
LoopResultIgnoreErr(site, outcome, err, next, v) ==
    LET n == attempts[site] + 1
        d == retry_loop(n, outcome)
    IN  /\ attempts' = [attempts EXCEPT ![site] = n]
        /\ loopRes' = [loopRes EXCEPT ![site] = d]
        /\ CASE d = "Ok" ->
                  IF next = "done"
                    THEN CompReturn("ok", "none", v)
                    ELSE cPc' = next /\ UNCHANGED <<cResult, cErr, cValue>>
             [] d = "Exhausted" -> CompReturn("err", "exhausted", cValue)
             [] OTHER -> UNCHANGED <<cPc, cResult, cErr, cValue>>

\* retry_loop(..., closure).await.context(...)? at `site`, its closure having
\* answered `outcome` (with error `err`): on Ok the operation goes on with
\* `next`, or returns `v` when that was its last step.
LoopResult(site, outcome, err, next, v) ==
    LET n == attempts[site] + 1
        d == retry_loop(n, outcome)
    IN  /\ attempts' = [attempts EXCEPT ![site] = n]
        /\ loopRes' = [loopRes EXCEPT ![site] = d]
        /\ CASE d = "Ok" ->
                  IF next = "done"
                    THEN CompReturn("ok", "none", v)
                    ELSE cPc' = next /\ UNCHANGED <<cResult, cErr, cValue>>
             [] d = "Again" -> UNCHANGED <<cPc, cResult, cErr, cValue>>
             [] d = "Err" -> CompReturn("err", err, cValue)
             [] OTHER -> CompReturn("err", "exhausted", cValue)

\* The closure's verification read saw v (or nothing: "unread").
Observe(site, v) == observed' = [observed EXCEPT ![site] = v]

\* A closure that only looks an element up: .query(selector).and_displayed()
\* .and_enabled().single().await?, then Break(Self::new(element)).
QueryAttempt(site, v) ==
    /\ cPc = site
    /\ \/ \E r \in Readable(site) :
            /\ Observe(site, r)
            /\ IF r = "found"
                 THEN LoopResult(site, "Break", "none", "done", v)
                 ELSE LoopResult(site, "Err", "not_found", "done", v)
       \/ /\ Observe(site, "unread")
          /\ LoopResult(site, "Err", "driver", "done", v)
    /\ UNCHANGED <<cOp, creds, cMonth, readyAt, resolved, cLog>>
    /\ UNCHANGED compOthers

\* ControlForm::query
ControlFormQueryAttempt ==
    /\ cOp = "ControlForm_query"
    /\ QueryAttempt("control_bar", "ControlForm")

\* Pagination::query
PaginationQueryAttempt ==
    /\ cOp = "Pagination_query"
    /\ QueryAttempt("pagination", "Pagination")

\* What a closure that acts and then verifies does before its verdict: the
\* element lookup fails (nothing is performed), or the chain is performed and
\* fails, or the chain is performed and the verification read fails.
ActFails(site, chain) ==
    /\ Observe(site, "unread")
    /\ \/ UNCHANGED cLog
       \/ cLog' = Append(cLog, chain)

GranularityChain == << <<"send_keys_to_element", "granularity", "Down", "Enter">> >>

\* (mutant) an unverified selection answers Continue.
GranularityVerdictContinue(v) ==
    IF v = "Monthly" THEN <<"Break", "none">> ELSE <<"Continue", "none">>

\* self.form.query(span[title=Monthly]).and_displayed().single().await?;
\* Ok(ControlFlow::BREAK)
GranularityVerdict(v) ==
    IF v = "Monthly" THEN <<"Break", "none">> ELSE <<"Err", "not_found">>

\* set_data_period, first loop: "setting data time granularity".
GranularityAttempt ==
    /\ cOp = "set_data_period"
    /\ cPc = "granularity"
    /\ LET next == IF cMonth = "None" THEN "done" ELSE "time_period"
       IN  \/ /\ ActFails("granularity", GranularityChain)
              /\ LoopResult("granularity", "Err", "driver", next, "unit")
           \/ \E v \in Readable("granularity") :
                /\ cLog' = Append(cLog, GranularityChain)
                /\ Observe("granularity", v)
                /\ LoopResult("granularity", GranularityVerdict(v)[1],
                              GranularityVerdict(v)[2], next, "unit")
    /\ UNCHANGED <<cOp, creds, cMonth, readyAt, resolved>>
    /\ UNCHANGED compOthers

TimePeriodChain ==
    << <<"click_element", "time_period">>, <<"key_down", "Control">>,
       <<"send_keys", "a">>, <<"key_up", "Control">>,
       <<"send_keys", "Backspace", cMonth, "Enter">> >>

\* (mutant) the value is not compared with the month.
TimePeriodVerdictAlways(v) == "Break"

\* if value().await?.unwrap_or_default() == month { BREAK } else { CONTINUE }
TimePeriodVerdict(v) == IF v = cMonth THEN "Break" ELSE "Continue"

\* set_data_period, second loop: "setting time period" (if let Some(month)).
TimePeriodAttempt ==
    /\ cOp = "set_data_period"
    /\ cPc = "time_period"
    /\ \/ /\ ActFails("time_period", TimePeriodChain)
          /\ LoopResult("time_period", "Err", "driver", "done", "unit")
       \/ \E v \in Readable("time_period") :
            /\ cLog' = Append(cLog, TimePeriodChain)
            /\ Observe("time_period", v)
            /\ LoopResult("time_period", TimePeriodVerdict(v), "none", "done",
                          "unit")
    /\ UNCHANGED <<cOp, creds, cMonth, readyAt, resolved>>
    /\ UNCHANGED compOthers

PageSizeChain ==
    << <<"send_keys_to_element", "page_size", "Down", "Down", "Down", "Enter">> >>

\* (mutant) the title is not compared with "50 / page".
PageSizeVerdictAlways(v) ==
    IF v = "absent" THEN <<"Err", "not_found">> ELSE <<"Break", "none">>

\* .query(".ant-select-selection-item").and_displayed().single().await?
\* .attr("title").await?.unwrap_or_default() == "50 / page"
PageSizeVerdict(v) ==
    IF v = "absent" THEN <<"Err", "not_found">>
    ELSE IF v = "50 / page" THEN <<"Break", "none">>
    ELSE <<"Continue", "none">>

\* Pagination::increase_page_size: "increasing page size".
PageSizeAttempt ==
    /\ cOp = "increase_page_size"
    /\ cPc = "page_size"
    /\ \/ /\ ActFails("page_size", PageSizeChain)
          /\ LoopResult("page_size", "Err", "driver", "done", "unit")
       \/ \E v \in Readable("page_size") :
            /\ cLog' = Append(cLog, PageSizeChain)
            /\ Observe("page_size", v)
            /\ LoopResult("page_size", PageSizeVerdict(v)[1],
                          PageSizeVerdict(v)[2], "done", "unit")
    /\ UNCHANGED <<cOp, creds, cMonth, readyAt, resolved>>
    /\ UNCHANGED compOthers

LoginChain ==
    << <<"send_keys_to_element", "username", creds.username>>,
       <<"send_keys_to_element", "password", creds.password>>,
       <<"click_element", "login">> >>

\* (mutant) a missing element is passed over.
LoginResolveLenient(el, next) ==
    /\ cOp = "Login_login"
    /\ cPc = el
    /\ cPc' = next
    /\ \/ resolved' = resolved \cup {el}
       \/ UNCHANGED resolved
    /\ UNCHANGED <<cResult, cErr, cValue>>

\* self.<el>.resolve_present().await.context(...)?
LoginResolve(el, next) ==
    /\ cOp = "Login_login"
    /\ cPc = el
    /\ \/ /\ resolved' = resolved \cup {el}
          /\ cPc' = next
          /\ UNCHANGED <<cResult, cErr, cValue>>
       \/ /\ UNCHANGED resolved
          /\ CompReturn("err", "not_found", cValue)

LoginFrame ==
    /\ UNCHANGED <<cOp, creds, cMonth, readyAt, attempts, observed, loopRes>>
    /\ UNCHANGED compOthers

LoginResolveUsername ==
    LoginResolve("username", "password") /\ UNCHANGED cLog /\ LoginFrame

LoginResolvePassword ==
    LoginResolve("password", "login") /\ UNCHANGED cLog /\ LoginFrame

LoginResolveButton ==
    LoginResolve("login", "perform") /\ UNCHANGED cLog /\ LoginFrame

\* driver.action_chain()...perform().await.context("unable to execute login")?
LoginPerform ==
    /\ cOp = "Login_login"
    /\ cPc = "perform"
    /\ cLog' = Append(cLog, LoginChain)
    /\ \/ CompReturn("ok", "none", "unit")
       \/ CompReturn("err", "driver", cValue)
    /\ UNCHANGED resolved
    /\ LoginFrame

CompIdle ==
    /\ cOp = "none"
    /\ cPc = "done"
    /\ creds = [username |-> "", password |-> ""]
    /\ cMonth = "None"
    /\ readyAt = [s \in Sites |-> 0]
    /\ attempts = [s \in Sites |-> 0]
    /\ observed = [s \in Sites |-> "unread"]
    /\ resolved = {}
    /\ cLog = <<>>
    /\ cResult = "none"
    /\ cErr = "none"
    /\ cValue = "none"
    /\ loopRes = [s \in Sites |-> "none"]

(***************************************************************************)
(* The station tree (src/scraper/components.rs)                            *)
(***************************************************************************)
\* Lines of the station tree.
MaxLines == 3

treeOthers == <<runVars, scrVars, prodPc, chanVars, expVars, wrVars, compVars,
                dataVars,
                hostVars, fileVars>>

\* Characters of the names, with their order.
Chars == {".", "a", "b"}

CharRank(c) == CASE c = "." -> 46 [] c = "a" -> 97 [] OTHER -> 98

RECURSIVE StrLess(_, _)
\* String::cmp(s, t) = Less: lexicographic order of the characters.
StrLess(s, t) ==
    IF t = <<>> THEN FALSE
    ELSE IF s = <<>> THEN TRUE
    ELSE IF Head(s) = Head(t) THEN StrLess(Tail(s), Tail(t))
    ELSE CharRank(Head(s)) < CharRank(Head(t))

LineNames == {<<"a">>, <<"b">>}

\* A line is a directory (it has a caret) or a station (it has a checkbox);
\* parent is the position of the directory holding it, 0 at the top level.
Lines == [name : LineNames, dir : BOOLEAN, parent : 0 .. MaxLines - 1]

\* Trees: every line lies below a directory that precedes it, or at the top.
Trees ==
    {t \in UNION {[1 .. n -> Lines] : n \in 0 .. MaxLines} :
        \A i \in DOMAIN t :
            t[i].parent = 0 \/ (t[i].parent < i /\ t[t[i].parent].dir)}

RECURSIVE Rendered(_)
\* Line i is in the document: all the directories above it are expanded.
Rendered(i) ==
    \/ dom[i].parent = 0
    \/ dom[i].parent \in expanded /\ Rendered(dom[i].parent)

RECURSIVE Matching(_)
\* The elements matching "li > .flex-node-line" among the first n lines, in
\* document order.
Matching(n) ==
    IF n = 0 THEN <<>>
    ELSE IF Rendered(n) THEN Append(Matching(n - 1), n)
    ELSE Matching(n - 1)

NoLineOp ==
    [op |-> "none", line |-> 0, name |-> "unread", lookup |-> "none",
     clicked |-> {}, res |-> "none", err |-> "none"]

\* self.caret.resolve_present() on line i: the caret (nowait) is there for a
\* directory and not for a station; the lookup may also fail otherwise.
CaretLookups(i) ==
    IF dom[i].dir THEN {"found", "other_error"}
    ELSE {"no_such_element", "other_error"}

\* (mutant) every failed lookup is taken for a station.
IsDirResultLenient(lookup) ==
    IF lookup = "found" THEN "true" ELSE "false"

\* StationLine::is_dir: Err(NoSuchElement) => Ok(false), Ok(_) => Ok(true),
\* Err(err) => Err(err.into()).
IsDirResult(lookup) ==
    CASE lookup = "found" -> "true"
      [] lookup = "no_such_element" -> "false"
      [] OTHER -> "err"

\* StationLine::is_dir on a line of the document.
StationLineIsDir ==
    /\ treePc = "idle"
    /\ \E i \in DOMAIN dom :
          /\ Rendered(i)
          /\ \E l \in CaretLookups(i) :
                lineOp' = [NoLineOp EXCEPT !.op = "is_dir", !.line = i,
                                           !.lookup = l,
                                           !.res = IsDirResult(l)]
    /\ UNCHANGED <<dom, expanded, checked, treePc, treeRes, treeLines>>
    /\ UNCHANGED treeOthers

\* (mutant) the checkbox is clicked whatever the caret lookup found.
ClickTargetCheckbox(lookup) ==
    IF lookup = "other_error" THEN "none" ELSE "checkbox"

\* StationLine::click: the element that the match on the caret lookup clicks.
ClickTarget(lookup) ==
    CASE lookup = "found" -> "caret"
      [] lookup = "no_such_element" -> "checkbox"
      [] OTHER -> "none"

\* What a click on element e of line i does to the page: the caret opens or
\* closes the directory, the checkbox selects or deselects the line.
Clicked(i, e) ==
    IF e = "caret"
      THEN /\ expanded' = (expanded \ {i}) \cup ({i} \ expanded)
           /\ UNCHANGED checked
      ELSE /\ checked' = (checked \ {i}) \cup ({i} \ checked)
           /\ UNCHANGED expanded

\* StationLine::click: station_name() (an unreadable name becomes "<missing>"),
\* then the caret lookup; the caret is clicked, or on NoSuchElement the
\* checkbox is resolved and clicked; any other lookup error is returned.
StationLineClick ==
    /\ treePc = "idle"
    /\ \E i \in DOMAIN dom, n \in {"ok", "missing"} :
          /\ Rendered(i)
          /\ \E l \in CaretLookups(i) :
                LET e == ClickTarget(l)
                    op == [NoLineOp EXCEPT !.op = "click", !.line = i,
                                           !.name = n, !.lookup = l]
                IN  \/ /\ e = "none"
                       /\ lineOp' = [op EXCEPT !.res = "err",
                                               !.err = "caret_lookup"]
                       /\ UNCHANGED <<expanded, checked>>
                    \/ /\ e = "checkbox"
                       /\ lineOp' = [op EXCEPT !.res = "err",
                                               !.err = "checkbox_lookup"]
                       /\ UNCHANGED <<expanded, checked>>
                    \/ /\ e # "none"
                       /\ lineOp' = [op EXCEPT !.res = "err",
                                               !.err = "click"]
                       /\ UNCHANGED <<expanded, checked>>
                    \/ /\ e # "none"
                       /\ lineOp' = [op EXCEPT !.res = "ok", !.clicked = {e}]
                       /\ Clicked(i, e)
    /\ UNCHANGED <<dom, treePc, treeRes, treeLines>>
    /\ UNCHANGED treeOthers

\* ControlForm::stations: self.plants.resolve().await.context(...)?
ControlFormStations ==
    /\ treePc = "idle"
    /\ \/ treePc' = "lines" /\ UNCHANGED treeRes
       \/ treePc' = "done" /\ treeRes' = "err"
    /\ UNCHANGED <<dom, expanded, checked, treeLines, lineOp>>
    /\ UNCHANGED treeOthers

\* StationTree::stations: self.stations.resolve_present(): every element
\* matching the selector, as the document has them.
StationTreeStations ==
    /\ treePc = "lines"
    /\ \/ /\ treeLines' = Matching(Len(dom))
          /\ treeRes' = "ok"
       \/ /\ UNCHANGED treeLines
          /\ treeRes' = "err"
    /\ treePc' = "done"
    /\ UNCHANGED <<dom, expanded, checked, lineOp>>
    /\ UNCHANGED treeOthers

TreeIdle ==
    /\ dom = <<>>
    /\ expanded = {}
    /\ checked = {}
    /\ treePc = "done"
    /\ treeRes = "none"
    /\ treeLines = <<>>
    /\ lineOp = NoLineOp

(***************************************************************************)
(* The data model (src/model.rs) and the output paths (src/exporter.rs)    *)
(***************************************************************************)
\* Characters of a station name.
MaxNameLen == 2

dataOthers == <<runVars, scrVars, prodPc, chanVars, expVars, wrVars, compVars,
                treeVars,
                hostVars, fileVars>>

StationNames == UNION {[1 .. n -> Chars] : n \in 1 .. MaxNameLen}

Stations == [id : {"id1", "id2"}, name : StationNames]

\* (mutant) the derived equality: every field is compared.
StationEqDerived(a, b) == a.id = b.id /\ a.name = b.name

\* impl PartialEq for Station: PartialEq::eq(&self.id, &other.id)
StationEq(a, b) == a.id = b.id

\* impl Hash for Station: what is fed to the hasher, String::hash(&self.id).
StationHash(a) == <<a.id>>

\* cli::ExportFormat and the extension export passes for it.
ExportFormats == {"Values", "Log", "Csv"}

Extension(f) ==
    CASE f = "Values" -> <<"t", "x", "t">>
      [] f = "Log" -> <<"l", "o", "g">>
      [] OTHER -> <<"c", "s", "v">>

\* out.destination, one path component.
Destination == <<"o", "u", "t">>

RECURSIVE LastDot(_)
\* Position of the last "." of a name, 0 if it has none.
LastDot(name) ==
    IF name = <<>> THEN 0
    ELSE IF name[Len(name)] = "." THEN Len(name)
    ELSE LastDot(SubSeq(name, 1, Len(name) - 1))

\* Path::file_stem: the whole name if it has no "." or only a leading one,
\* else the part before the last ".".
FileStem(name) ==
    IF LastDot(name) <= 1 THEN name ELSE SubSeq(name, 1, LastDot(name) - 1)

\* directory.join(name): a path is the sequence of its components; a "."
\* component after the first is dropped by Path::components.
PathJoin(dir, name) ==
    IF name = <<".">> THEN <<dir>> ELSE <<dir, name>>

\* Path::with_extension: the last component, unless it is "..", is cut back to
\* its stem and "." and the extension are appended.
WithExtension(path, ext) ==
    LET last == path[Len(path)]
    IN  IF last = <<".", ".">> THEN path
        ELSE [path EXCEPT ![Len(path)] = FileStem(last) \o <<".">> \o ext]

\* export_to_file: the destination of a Report.
ReportPath(station, f) ==
    WithExtension(PathJoin(Destination, station.name), Extension(f))

\* Option<f64>, in tenths.
Yields == [some : BOOLEAN, tenths : {0, 70, 125}]

None == [some |-> FALSE, tenths |-> 0]

Dates == {<<"0", "1">>, <<"0", "2">>}

Records == {r \in [date : Dates, pv_yield : Yields] :
               ~r.pv_yield.some => r.pv_yield = None}

DigitChar(d) == <<"0", "1", "2", "3", "4", "5", "6", "7", "8", "9">>[d + 1]

RECURSIVE Digits(_)
Digits(n) ==
    IF n < 10 THEN <<DigitChar(n)>>
    ELSE Digits(n \div 10) \o <<DigitChar(n % 10)>>

\* f64::to_string of t tenths: the shortest text that reads back as the number.
F64ToString(t) ==
    IF t % 10 = 0 THEN Digits(t \div 10)
    ELSE Digits(t \div 10) \o <<".">> \o <<DigitChar(t % 10)>>

\* (mutant) an absent yield is rendered as the empty text.
fmt_yieldEmpty(r) ==
    IF r.pv_yield.some THEN F64ToString(r.pv_yield.tenths) ELSE <<>>

\* Record::fmt_yield: map_or(Cow::from("0"), |v| v.to_string().into())
fmt_yield(r) ==
    IF r.pv_yield.some THEN F64ToString(r.pv_yield.tenths) ELSE <<"0">>

\* Record::to_value
to_value(r) == fmt_yield(r)

\* Record::to_csv: format!("{}; {}", self.date, self.fmt_yield())
to_csv(r) == r.date \o <<";", " ">> \o fmt_yield(r)

\* impl Display for Record: "[", date, "]: ", fmt_yield
RecordDisplay(r) == <<"[">> \o r.date \o <<"]", ":", " ">> \o fmt_yield(r)

\* #[derive(PartialEq)] for Record: date and pv_yield, None equal to None only.
RecordEq(a, b) ==
    /\ a.date = b.date
    /\ a.pv_yield.some = b.pv_yield.some
    /\ a.pv_yield.some => a.pv_yield.tenths = b.pv_yield.tenths

Apply(f) ==
    /\ f \notin applied
    /\ applied' = applied \cup {f}

StationFrame ==
    /\ UNCHANGED <<stA, stB, fmt, recA, recB, recOut>>
    /\ UNCHANGED dataOthers

ApplyStationEq ==
    /\ Apply("eq")
    /\ stOut' = [stOut EXCEPT !.eq = StationEq(stA, stB)]
    /\ StationFrame

ApplyStationHash ==
    /\ Apply("hash")
    /\ stOut' = [stOut EXCEPT !.hashA = StationHash(stA),
                              !.hashB = StationHash(stB)]
    /\ StationFrame

ApplyReportPath ==
    /\ Apply("path")
    /\ stOut' = [stOut EXCEPT !.pathA = ReportPath(stA, fmt),
                              !.pathB = ReportPath(stB, fmt)]
    /\ StationFrame

RecordFrame ==
    /\ UNCHANGED <<stA, stB, fmt, recA, recB, stOut>>
    /\ UNCHANGED dataOthers

ApplyToValue ==
    /\ Apply("to_value")
    /\ recOut' = [recOut EXCEPT !.valueA = to_value(recA),
                                !.valueB = to_value(recB)]
    /\ RecordFrame

ApplyToCsv ==
    /\ Apply("to_csv")
    /\ recOut' = [recOut EXCEPT !.csvA = to_csv(recA), !.csvB = to_csv(recB)]
    /\ RecordFrame

ApplyDisplay ==
    /\ Apply("to_string")
    /\ recOut' = [recOut EXCEPT !.logA = RecordDisplay(recA),
                                !.logB = RecordDisplay(recB)]
    /\ RecordFrame

ApplyRecordEq ==
    /\ Apply("record_eq")
    /\ recOut' = [recOut EXCEPT !.eq = RecordEq(recA, recB)]
    /\ RecordFrame

NoStation == [id |-> "", name |-> <<>>]

NoRecord == [date |-> <<>>, pv_yield |-> None]

NoStationOut ==
    [eq |-> FALSE, hashA |-> <<>>, hashB |-> <<>>, pathA |-> <<>>,
     pathB |-> <<>>]

NoRecordOut ==
    [valueA |-> <<>>, valueB |-> <<>>, csvA |-> <<>>, csvB |-> <<>>,
     logA |-> <<>>, logB |-> <<>>, eq |-> FALSE]

DataIdle ==
    /\ stA = NoStation
    /\ stB = NoStation
    /\ fmt = "Csv"
    /\ recA = NoRecord
    /\ recB = NoRecord
    /\ applied = {}
    /\ stOut = NoStationOut
    /\ recOut = NoRecordOut

(***************************************************************************)
(* write_report and its file (src/exporter.rs)                             *)
(***************************************************************************)
writeOthers == <<runVars, scrVars, prodPc, chanVars, expVars, wrVars, compVars,
                 treeVars, dataVars, hostVars>>

\* export: the format function chosen for the ExportFormat.
Format(f, r) ==
    CASE f = "Values" -> to_value(r)
      [] f = "Log" -> RecordDisplay(r)
      [] OTHER -> to_csv(r)

\* to_line: format(record) + "\n"
to_line(f, r) == Format(f, r) \o <<"\n">>

NoWriteOp == [state |-> "idle", buf |-> <<>>]

\* File::create(file).await.with_context(...)?: the file is created, or
\* truncated if it exists.
WriteReportCreate ==
    /\ wPc = "create"
    /\ \/ /\ wPc' = "write"
          /\ wData' = <<>>
          /\ UNCHANGED wRes
       \/ /\ wPc' = "done"
          /\ wRes' = "err"
          /\ UNCHANGED wData
    /\ UNCHANGED <<wReport, wFmt, wNext, wOp>>
    /\ UNCHANGED writeOthers

\* file.write_all(format(record).as_bytes()).await.with_context(...)? on a
\* tokio File: the bytes are copied into the file's buffer, a blocking task is
\* started to write them, and the call returns Ok at once; it waits for the
\* operation started by the call before, and returns that one's error if it
\* failed.
WriteReportWriteAll ==
    /\ wPc = "write"
    /\ wNext <= Len(wReport)
    /\ wOp.state # "running"
    /\ IF wOp.state = "failed"
         THEN /\ wPc' = "done"
              /\ wRes' = "err"
              /\ wOp' = NoWriteOp
              /\ UNCHANGED wNext
         ELSE /\ wOp' = [state |-> "running",
                         buf |-> to_line(wFmt, wReport[wNext])]
              /\ wNext' = wNext + 1
              /\ UNCHANGED <<wPc, wRes>>
    /\ UNCHANGED <<wReport, wFmt, wData>>
    /\ UNCHANGED writeOthers

\* The blocking task of the file's write operation: it writes the buffer, or
\* fails after a part of it. It runs whether or not write_report has returned
\* and the File was dropped.
FileBlockingWrite ==
    /\ wOp.state = "running"
    /\ \/ /\ wData' = wData \o wOp.buf
          /\ wOp' = [wOp EXCEPT !.state = "done"]
       \/ \E k \in 0 .. Len(wOp.buf) - 1 :
            /\ wData' = wData \o SubSeq(wOp.buf, 1, k)
            /\ wOp' = [wOp EXCEPT !.state = "failed"]
    /\ UNCHANGED <<wReport, wFmt, wPc, wNext, wRes>>
    /\ UNCHANGED writeOthers

\* The loop is over: "report written", Ok(()). The File is dropped; nothing
\* flushes it or waits for its last operation.
WriteReportReturn ==
    /\ wPc = "write"
    /\ wNext > Len(wReport)
    /\ wPc' = "done"
    /\ wRes' = "ok"
    /\ UNCHANGED <<wReport, wFmt, wNext, wData, wOp>>
    /\ UNCHANGED writeOthers

FileIdle ==
    /\ wReport = <<>>
    /\ wFmt = "Csv"
    /\ wPc = "idle"
    /\ wNext = 1
    /\ wRes = "none"
    /\ wData = <<>>
    /\ wOp = NoWriteOp

AuxIdle ==
    /\ CompIdle
    /\ TreeIdle
    /\ DataIdle
    /\ FileIdle

(***************************************************************************)
(* Specifications                                                          *)
(***************************************************************************)
InitCommon ==
    /\ runResult = "none"
    /\ scrPc = "idle"
    /\ scrResult = "none"
    /\ innerResult = "none"
    /\ failedStep = "none"
    /\ performed = {}
    /\ process = "none"
    /\ session = "none"
    /\ quitCalled = FALSE
    /\ toast = "none"
    /\ senderAlive = TRUE
    /\ receiverAlive = TRUE
    /\ queue = <<>>
    /\ sent = 0
    /\ received = 0
    /\ expResult = "none"
    /\ expError = 0
    /\ outDir \in {"absent", "stale"}
    /\ dirCreated = FALSE
    /\ wrPc = "idle"
    /\ wrReport = 0
    /\ wrLines = 0
    /\ wrResult = "none"
    /\ files = {}
    /\ written = {}
    /\ failed = {}
    /\ AuxIdle

\* The program: main has parsed its arguments and calls run.
Init ==
    /\ InitCommon
    /\ driverOut \in Outputs
    /\ browserOut \in Outputs
    /\ runPc = "start"
    /\ prodPc = "none"
    /\ expPc = "idle"

Next ==
    \/ RunSpawn
    \/ RunJoin
    \/ ScrapeStep
    \/ ExportRemoveDir
    \/ ExportCreateDir
    \/ ExportEndOfStream
    \/ ExportPanic
    \/ CancelScrape
    \/ CancelExport

Spec == Init /\ [][Next]_vars

\* export(out, rx) is called with the Receiver of a channel(20) whose Sender
\* another task holds.
InitExport ==
    /\ InitCommon
    /\ HostIdle
    /\ runPc = "none"
    /\ prodPc = "sending"
    /\ expPc = "remove_dir"

NextExport ==
    \/ ProducerSend
    \/ ProducerSendClosed
    \/ ProducerFinish
    \/ ExportRemoveDir
    \/ ExportCreateDir
    \/ ExportDequeue
    \/ ExportEndOfStream
    \/ ExportJoin
    \/ ExportPanic
    \/ WriteCreate
    \/ WriteRecord
    \/ WriteFinish
    \/ WritePanic

SpecExport == InitExport /\ [][NextExport]_vars

\* The pipeline is not running: nothing of it moves.
ProgramIdle ==
    /\ HostIdle
    /\ runPc = "none"
    /\ prodPc = "none"
    /\ expPc = "idle"
    /\ runResult = "none"
    /\ scrPc = "idle"
    /\ scrResult = "none"
    /\ innerResult = "none"
    /\ failedStep = "none"
    /\ performed = {}
    /\ process = "none"
    /\ session = "none"
    /\ quitCalled = FALSE
    /\ toast = "none"
    /\ senderAlive = TRUE
    /\ receiverAlive = TRUE
    /\ queue = <<>>
    /\ sent = 0
    /\ received = 0
    /\ expResult = "none"
    /\ expError = 0
    /\ outDir = "absent"
    /\ dirCreated = FALSE
    /\ wrPc = "idle"
    /\ wrReport = 0
    /\ wrLines = 0
    /\ wrResult = "none"
    /\ files = {}
    /\ written = {}
    /\ failed = {}

\* One operation of one component, on a page that shows the state each retry
\* site waits for from attempt readyAt[site] on (0: never).
InitComponents ==
    /\ ProgramIdle
    /\ FileIdle
    /\ TreeIdle
    /\ DataIdle
    /\ cOp \in Ops
    /\ cPc = IF cOp = "Login_login" THEN "username" ELSE FirstPc(cOp)
    /\ creds \in [username : {"alice", "bob"}, password : {"pw"}]
    /\ cOp # "Login_login" => creds.username = "alice"
    /\ cMonth \in Months \cup {"None"}
    /\ cOp # "set_data_period" => cMonth = "None"
    /\ readyAt \in [Sites -> 0 .. MaxContinues + 1]
    /\ \A s \in Sites : s \notin SitesOf(cOp) => readyAt[s] = 0
    /\ cMonth = "None" => readyAt["time_period"] = 0
    /\ attempts = [s \in Sites |-> 0]
    /\ observed = [s \in Sites |-> "unread"]
    /\ loopRes = [s \in Sites |-> "none"]
    /\ resolved = {}
    /\ cLog = <<>>
    /\ cResult = "none"
    /\ cErr = "none"
    /\ cValue = "none"

NextComponents ==
    \/ LoginResolveUsername
    \/ LoginResolvePassword
    \/ LoginResolveButton
    \/ LoginPerform
    \/ ControlFormQueryAttempt
    \/ GranularityAttempt
    \/ TimePeriodAttempt
    \/ PaginationQueryAttempt
    \/ PageSizeAttempt

SpecComponents == InitComponents /\ [][NextComponents]_vars

\* The station tree as the page shows it, with every directory closed.
InitTree ==
    /\ ProgramIdle
    /\ FileIdle
    /\ CompIdle
    /\ DataIdle
    /\ dom \in Trees
    /\ expanded = {}
    /\ checked = {}
    /\ treePc = "idle"
    /\ treeRes = "none"
    /\ treeLines = <<>>
    /\ lineOp = NoLineOp

NextTree ==
    \/ StationLineIsDir
    \/ StationLineClick
    \/ ControlFormStations
    \/ StationTreeStations

SpecTree == InitTree /\ [][NextTree]_vars

\* Lines of the trees whose lines are probed and clicked one at a time.
MaxProbeLines == 2

\* The operations of a StationLine, on the lines of a small tree.
InitLine ==
    /\ InitTree
    /\ Len(dom) <= MaxProbeLines

NextLine ==
    \/ StationLineIsDir
    \/ StationLineClick

SpecLine == InitLine /\ [][NextLine]_vars

\* Two Stations of one run, and the format their Reports are exported in.
InitStations ==
    /\ ProgramIdle
    /\ FileIdle
    /\ CompIdle
    /\ TreeIdle
    /\ stA \in Stations
    /\ stB \in Stations
    /\ fmt \in ExportFormats
    /\ recA = NoRecord
    /\ recB = NoRecord
    /\ applied = {}
    /\ stOut = NoStationOut
    /\ recOut = NoRecordOut

NextStations ==
    \/ ApplyStationEq
    \/ ApplyStationHash
    \/ ApplyReportPath

SpecStations == InitStations /\ [][NextStations]_vars

\* Two Records.
InitRecords ==
    /\ ProgramIdle
    /\ FileIdle
    /\ CompIdle
    /\ TreeIdle
    /\ stA = NoStation
    /\ stB = NoStation
    /\ fmt = "Csv"
    /\ recA \in Records
    /\ recB \in Records
    /\ applied = {}
    /\ stOut = NoStationOut
    /\ recOut = NoRecordOut

NextRecords ==
    \/ ApplyToValue
    \/ ApplyToCsv
    \/ ApplyDisplay
    \/ ApplyRecordEq

SpecRecords == InitRecords /\ [][NextRecords]_vars

\* write_report is spawned with one Report, for a file that may exist.
InitWrite ==
    /\ ProgramIdle
    /\ CompIdle
    /\ TreeIdle
    /\ DataIdle
    /\ wReport \in UNION {[1 .. n -> Records] : n \in 0 .. MaxRecords}
    /\ wFmt \in ExportFormats
    /\ wPc = "create"
    /\ wNext = 1
    /\ wRes = "none"
    /\ wData \in {<<>>, <<"x", "\n">>}
    /\ wOp = NoWriteOp

NextWrite ==
    \/ WriteReportCreate
    \/ WriteReportWriteAll
    \/ FileBlockingWrite
    \/ WriteReportReturn

SpecWrite == InitWrite /\ [][NextWrite]_vars

(***************************************************************************)
(* Claims                                                                  *)
(***************************************************************************)
ExportReturned == expPc = "done" /\ expResult \in {"ok", "err"}

\* C1: when the write of one Report has failed, every other Report emitted
\* into the queue has been written by the time export returns.
C1_OtherReportsWritten ==
    (ExportReturned /\ failed # {}) =>
        \A k \in 1..sent : k \notin failed => k \in written

\* C2: the consumer does not wait for the previous write: while export consumes
\* the stream and a Report is queued, it can dequeue it and start its write,
\* whether or not a write_report is in progress.
C2_NextWriteStartsWithoutWaiting ==
    (expPc \in {"recv", "join"} /\ queue # <<>>) => ENABLED ExportDequeue

\* C3: run returns only once both top-level tasks have concluded (each
\* returned or panicked by itself; neither is still running or cut short).
C3_RunReturnsAfterBothConcluded ==
    runPc = "returned" =>
        /\ scrResult \in {"ok", "err", "panic"}
        /\ expResult \in {"ok", "err", "panic"}

\* C4: run returns success only if both tasks returned Ok without panicking;
\* once either task has returned an error or panicked, run does not return
\* success, and an error it returns comes from a task that failed.
C4_SuccessOnlyIfBothOk ==
    /\ runResult = "ok" => (scrResult = "ok" /\ expResult = "ok")
    /\ (scrResult \in {"err", "panic"} \/ expResult \in {"err", "panic"})
          => runResult # "ok"
    /\ runResult = "err"
          => (scrResult \in {"err", "panic"} \/ expResult \in {"err", "panic"})

C4_Witness ==
    /\ runPc = "returned"
    /\ runResult = "ok"
    /\ scrResult = "ok"
    /\ expResult = "ok"

\* C5: when scrape has returned after scrape_inner ran (with Ok or with an
\* error), driver.quit() has been called on the session.
C5_SessionClosedAtEnd ==
    (scrPc = "done" /\ scrResult \in {"ok", "err"} /\ innerResult # "none")
        => quitCalled

\* C6: when scrape_inner ends in Done, the targets other than a single failing
\* one have been extracted and their Reports emitted.
C6_RemainingTargetsEmitted ==
    innerResult = "ok" => sent >= NumStations - 1

\* C7: when a step of scrape_inner before extraction fails, scrape_inner
\* returns that error at once: no later step is performed, no Report has been
\* emitted and no report file is written.
C7_FatalStepAborts ==
    innerResult = "err" =>
        /\ failedStep \in performed
        /\ \A s \in performed : StepIndex(s) <= StepIndex(failedStep)
        /\ scrPc = "done"
        /\ scrResult = "err"
        /\ sent = 0
        /\ files = {}

C7_Witness ==
    /\ innerResult = "err"
    /\ failedStep = "increase_page_size"
    /\ scrResult = "err"

\* C8: the queue never holds more than 20 Reports, and a further emission is
\* possible exactly while fewer than 20 are queued: with 20 queued the next
\* send blocks until export removes one.
C8_QueueBoundedAt20 ==
    /\ Len(queue) <= 20
    /\ (prodPc = "sending" /\ receiverAlive /\ sent < MaxReports)
          => (ENABLED ProducerSend <=> Len(queue) < 20)

C8_Witness ==
    /\ Len(queue) = 20
    /\ received = 0
    /\ prodPc = "sending"
    /\ receiverAlive
    /\ ~ENABLED ProducerSend

\* C9: once the Sender side has ended and export has returned (its output
\* directory created), export has dequeued every Report that was queued.
C9_ExportDrainsQueue ==
    (~senderAlive /\ ExportReturned /\ dirCreated) => received = sent

LoopEnded(s) == loopRes[s] \notin {"none", "Again"}

C19_LoginActsOnlyWhenAllResolved ==
    cOp = "Login_login" =>
        /\ cLog # <<>> =>
              /\ resolved = {"username", "password", "login"}
              /\ cLog = << << <<"send_keys_to_element", "username", creds.username>>,
                              <<"send_keys_to_element", "password", creds.password>>,
                              <<"click_element", "login">> >> >>
        /\ (cPc = "done" /\ resolved # {"username", "password", "login"}) =>
              /\ cResult = "err"
              /\ cLog = <<>>
        /\ cResult = "ok" => Len(cLog) = 1

\* The login was performed for bob after the three elements were resolved.
C19_Witness ==
    /\ cOp = "Login_login"
    /\ cResult = "ok"
    /\ creds.username = "bob"
    /\ Len(cLog) = 1

\* C20: a filter-configuration step returns success only if the verification
\* read of its last attempt saw the expected state: Monthly displayed for the
\* granularity, the period's value equal to the requested month, the page-size
\* title equal to "50 / page"; without a month the period step is skipped and
\* performs no action.
C20_SuccessOnlyIfVerified ==
    /\ loopRes["granularity"] = "Ok" => observed["granularity"] = "Monthly"
    /\ loopRes["time_period"] = "Ok" =>
          cMonth \in Months /\ observed["time_period"] = cMonth
    /\ loopRes["page_size"] = "Ok" => observed["page_size"] = "50 / page"
    /\ (cOp = "set_data_period" /\ cResult = "ok") =>
          /\ loopRes["granularity"] = "Ok"
          /\ cMonth # "None" => loopRes["time_period"] = "Ok"
    /\ (cOp = "increase_page_size" /\ cResult = "ok") =>
          loopRes["page_size"] = "Ok"
    /\ (cOp = "set_data_period" /\ cMonth = "None") =>
          /\ attempts["time_period"] = 0
          /\ observed["time_period"] = "unread"
          /\ \A i \in DOMAIN cLog : cLog[i] = GranularityChain

\* The period is confirmed at its second attempt, after the granularity.
C20_Witness ==
    /\ cOp = "set_data_period"
    /\ cResult = "ok"
    /\ cMonth = "2021-04"
    /\ attempts["time_period"] = 2
    /\ observed["time_period"] = "2021-04"

\* C21: in the granularity step, when the verification read does not see the
\* Monthly state after the selection keys were sent, the attempt is repeated:
\* the step does not end with a failure on an unverified attempt that the
\* budget allows to repeat.
C21_UnverifiedGranularityRetried ==
    (observed["granularity"] = "absent"
        /\ attempts["granularity"] < RetryBudget)
        => loopRes["granularity"] = "Again" /\ cPc = "granularity"

C13_EnumerationYieldsSortedLeaves ==
    (treePc = "done" /\ treeRes = "ok") =>
        /\ \A i \in DOMAIN dom :
              ~dom[i].dir =>
                  Cardinality({k \in DOMAIN treeLines : treeLines[k] = i}) = 1
        /\ \A k \in DOMAIN treeLines : ~dom[treeLines[k]].dir
        /\ \A k \in DOMAIN treeLines :
              k < Len(treeLines) =>
                  ~StrLess(dom[treeLines[k + 1]].name, dom[treeLines[k]].name)

(***************************************************************************)
(* Output paths (SpecStations, SpecExport)                                 *)
(***************************************************************************)
\* C14: two Reports whose stations have different ids are never written to
\* the same output file path, also when their display names are equal.
C14_DifferentIdsDifferentPaths ==
    ("path" \in applied /\ stA.id # stB.id) => stOut.pathA # stOut.pathB

\* C15: the output directory is wiped and recreated before any Report is
\* consumed: when a report file is created, the directory holds no file left
\* from before the run.
C15_NoStaleFileAtFirstCreate ==
    files # {} => outDir = "clean"

\* C18: export does not return while a write it started is in progress: when
\* export_to_file returns, with success or error, no write_report task is
\* running.
C18_NoWriteInProgressAtReturn ==
    ExportReturned => wrPc \notin {"create", "write"}

\* export returns the error of a failed write after earlier writes succeeded.
C18_Witness ==
    /\ ExportReturned
    /\ expResult = "err"
    /\ written # {}
    /\ failed # {}
    /\ wrPc = "idle"

(***************************************************************************)
(* The data model (SpecStations, SpecRecords)                              *)
(***************************************************************************)
\* C16: two Stations are equal if and only if their ids are equal, whatever
\* their names, and two equal Stations produce the same hash.
C16_StationEqualityById ==
    /\ "eq" \in applied => (stOut.eq <=> stA.id = stB.id)
    /\ ({"eq", "hash"} \subseteq applied /\ stOut.eq)
          => stOut.hashA = stOut.hashB

\* Two Stations with one id and two names compare equal and hash alike.
C16_Witness ==
    /\ {"eq", "hash"} \subseteq applied
    /\ stOut.eq
    /\ stA.name # stB.name
    /\ stOut.hashA = stOut.hashB

\* The text of a yield: "0" for none, else the number's text.
YieldText(y) ==
    CASE ~y.some -> <<"0">>
      [] y.some /\ y.tenths = 0 -> <<"0">>
      [] y.some /\ y.tenths = 70 -> <<"7">>
      [] OTHER -> <<"1", "2", ".", "5">>

\* C17: to_value, to_csv and Display render an absent yield as "0" and a
\* present yield as the number's text (12.5 as "12.5"); a Record with an absent
\* yield is not equal to a Record with the same date and yield zero.
C17_AbsentYieldRenderedZero ==
    /\ "to_value" \in applied =>
          /\ recOut.valueA = YieldText(recA.pv_yield)
          /\ recOut.valueB = YieldText(recB.pv_yield)
    /\ "to_csv" \in applied =>
          /\ recOut.csvA = recA.date \o <<";", " ">> \o YieldText(recA.pv_yield)
          /\ recOut.csvB = recB.date \o <<";", " ">> \o YieldText(recB.pv_yield)
    /\ "to_string" \in applied =>
          /\ recOut.logA =
                <<"[">> \o recA.date \o <<"]", ":", " ">>
                    \o YieldText(recA.pv_yield)
          /\ recOut.logB =
                <<"[">> \o recB.date \o <<"]", ":", " ">>
                    \o YieldText(recB.pv_yield)
    /\ ("record_eq" \in applied /\ recA.date = recB.date
            /\ ~recA.pv_yield.some /\ recB.pv_yield.some)
          => ~recOut.eq

\* An absent yield and the yield 0.0 on one date: rendered alike in the three
\* forms, and the Records differ.
C17_Witness ==
    /\ applied = {"to_value", "to_csv", "to_string", "record_eq"}
    /\ recA.date = recB.date
    /\ ~recA.pv_yield.some
    /\ recB.pv_yield.some /\ recB.pv_yield.tenths = 0
    /\ recOut.valueA = <<"0">>
    /\ recOut.csvA = recOut.csvB
    /\ recOut.logA = recOut.logB
    /\ ~recOut.eq

(***************************************************************************)
(* The scrape task, continued (Spec)                                       *)
(***************************************************************************)
\* C23: failing to find or to click the login toast's close control is never
\* an error: whatever the dismissal's outcome, scrape_inner goes on to the
\* report page with no error recorded, and no failure of the run is ever
\* attributed to the toast.
C23_ToastNeverAnError ==
    [][/\ (toast = "none" /\ toast' # "none") =>
             /\ scrPc' = "goto_report"
             /\ innerResult' = "none"
             /\ scrResult' = "none"
             /\ failedStep' = "none"
       /\ failedStep' # "close_toast"]_vars

\* The close control was found but the click failed, and scrape returned Ok.
C23_Witness ==
    /\ toast = "click_failed"
    /\ "goto_report" \in performed
    /\ scrResult = "ok"

\* The two major versions were read and are the same.
VersionsAgree ==
    /\ driverOut.ran
    /\ browserOut.ran
    /\ FirstMatch(driverOut.stdout) # <<>>
    /\ FirstMatch(driverOut.stdout) = FirstMatch(browserOut.stdout)

\* C27: scrape spawns the driver process and creates a browser session only
\* after the compatibility check passed: if the major versions differ or one
\* cannot be read, no driver process is spawned, no session is created and no
\* browser command is issued.
C27_NoDriverUnlessCompatible ==
    ~VersionsAgree =>
        /\ process = "none"
        /\ session = "none"
        /\ ~quitCalled
        /\ performed = {}
        /\ scrPc \in {"idle", "assert_driver_compatible", "done"}

\* Both versions were read, they differ, and scrape returned the error.
C27_Witness ==
    /\ driverOut.ran /\ FirstMatch(driverOut.stdout) # <<>>
    /\ browserOut.ran /\ FirstMatch(browserOut.stdout) # <<>>
    /\ FirstMatch(driverOut.stdout) # FirstMatch(browserOut.stdout)
    /\ scrPc = "done"
    /\ scrResult = "err"
    /\ process = "none"

(***************************************************************************)
(* Station lines (SpecLine)                                                *)
(***************************************************************************)
\* C24: is_dir returns true exactly when the caret is found, false exactly
\* when the lookup fails with no-such-element, and an error for any other
\* lookup failure.
C24_IsDirTriState ==
    lineOp.op = "is_dir" =>
        /\ lineOp.res = "true" <=> lineOp.lookup = "found"
        /\ lineOp.res = "false" <=> lineOp.lookup = "no_such_element"
        /\ lineOp.res = "err" <=> lineOp.lookup = "other_error"

\* The probe of a station line failed for another reason than a missing
\* caret, and is_dir returned the error.
C24_Witness ==
    /\ lineOp.op = "is_dir"
    /\ ~dom[lineOp.line].dir
    /\ lineOp.lookup = "other_error"
    /\ lineOp.res = "err"

\* C25: on success click has clicked exactly one element, the caret of a
\* directory or the checkbox of a station; it never clicks the checkbox of a
\* directory, clicks nothing when the caret lookup fails for another reason
\* than no-such-element, and never fails because the name was unreadable.
C25_ClickOneElement ==
    lineOp.op = "click" =>
        /\ lineOp.res = "ok" =>
              /\ Cardinality(lineOp.clicked) = 1
              /\ "caret" \in lineOp.clicked <=>
                    (dom[lineOp.line].dir /\ lineOp.lookup = "found")
              /\ "checkbox" \in lineOp.clicked <=>
                    (~dom[lineOp.line].dir
                        /\ lineOp.lookup = "no_such_element")
        /\ dom[lineOp.line].dir => "checkbox" \notin lineOp.clicked
        /\ lineOp.lookup = "other_error" =>
              lineOp.clicked = {} /\ lineOp.res = "err"
        /\ lineOp.res = "err" =>
              /\ lineOp.clicked = {}
              /\ lineOp.err \in {"caret_lookup", "checkbox_lookup", "click"}
        /\ lineOp.res \in {"ok", "err"}

\* The name of a directory line could not be read, and its caret was clicked.
C25_Witness ==
    /\ lineOp.op = "click"
    /\ lineOp.name = "missing"
    /\ lineOp.res = "ok"
    /\ lineOp.clicked = {"caret"}
    /\ lineOp.line \in expanded

(***************************************************************************)
(* The report file (SpecWrite)                                             *)
(***************************************************************************)
RECURSIVE LinesOf(_, _)
\* The lines of the first n records, one after the other.
LinesOf(f, n) ==
    IF n = 0 THEN <<>>
    ELSE LinesOf(f, n - 1) \o Format(f, wReport[n]) \o <<"\n">>

\* C26: when write_report returns success, the output file holds exactly one
\* line per Record of the Report, in the Report's record order, each line the
\* chosen format of that Record.
C26_FileHoldsRecordsInOrder ==
    wRes = "ok" => wData = LinesOf(wFmt, Len(wReport))

====
